---- MODULE Spec2Model ----
(***************************************************************************)
(* A model of reservation/database.py: the Engine factory and the          *)
(* Connection data-access API over the sqlite store (Users, Rooms,         *)
(* Bookings).  Every API call is one atomic action; the outcome of the     *)
(* most recent call is kept in lastOp.  Two further specifications take    *)
(* the same state: SpecSteps runs add_user and modify_room statement by    *)
(* statement (pend holds a session's unfinished call), and SpecHttp runs   *)
(* the request hooks of reservation/resources.py (req holds the requests). *)
(*                                                                         *)
(* Texts that reach the SQL parser are sequences of one-character strings, *)
(* so that building a query text and parsing it back are two different     *)
(* computations.  Usernames and the other user fields only ever travel as  *)
(* bound parameters and are plain strings.                                 *)
(***************************************************************************)
EXTENDS Integers, Sequences, FiniteSets, TLC

VARIABLES con, fk, users, rooms, bookings, lastOp, pend, req

vars == <<con, fk, users, rooms, bookings, lastOp, pend, req>>

\* The Connection objects the Engine may hand out, in the order it makes
\* them.
SessionOrder == <<"c1", "c2">>
Sessions == {SessionOrder[i] : i \in 1..Len(SessionOrder)}

\* The HTTP requests in flight.
Requests == {"r1", "r2"}

\* Largest rowid the Users table may hand out (caps the model).
MaxUserID == 2

\* Python's None where a text value is expected.
NoneVal == "<None>"

----------------------------------------------------------------------------
(* Texts *)

Upper == <<"A","B","C","D","E","F","G","H","I","J","K","L","M",
           "N","O","P","Q","R","S","T","U","V","W","X","Y","Z">>
Lower == <<"a","b","c","d","e","f","g","h","i","j","k","l","m",
           "n","o","p","q","r","s","t","u","v","w","x","y","z">>
Digits == <<"0","1","2","3","4","5","6","7","8","9">>

IsDigit(ch) == \E i \in 1..10 : Digits[i] = ch
IsLetter(ch) == \E i \in 1..26 : Upper[i] = ch \/ Lower[i] = ch
IsIdChar(ch) == IsLetter(ch) \/ IsDigit(ch) \/ ch = "_"

LowerChar(ch) ==
    IF \E i \in 1..26 : Upper[i] = ch
    THEN Lower[CHOOSE i \in 1..26 : Upper[i] = ch]
    ELSE ch

LowerText(t) == [i \in 1..Len(t) |-> LowerChar(t[i])]

DigitVal(ch) == (CHOOSE i \in 1..10 : Digits[i] = ch) - 1

\* Python str(n) for a non-negative integer n.
RECURSIVE IntToStr(_)
IntToStr(n) ==
    IF n < 10 THEN <<Digits[n + 1]>>
    ELSE IntToStr(n \div 10) \o <<Digits[(n % 10) + 1]>>

\* The integer a decimal text denotes, -1 when it is no decimal text.
RECURSIVE ParseNat(_)
ParseNat(t) ==
    IF Len(t) = 0 \/ ~IsDigit(t[Len(t)]) THEN -1
    ELSE IF Len(t) = 1 THEN DigitVal(t[1])
    ELSE LET hi == ParseNat(SubSeq(t, 1, Len(t) - 1))
         IN  IF hi < 0 THEN -1 ELSE hi * 10 + DigitVal(t[Len(t)])

----------------------------------------------------------------------------
(* The SQL texts of database.py *)

\* "roomName = '%s'" % roomname : the filter of get_bookings.
BookingsFilter(roomname) ==
    <<"r","o","o","m","N","a","m","e"," ","="," ","'">> \o roomname \o <<"'">>

\* "roomname=?, date=?, time=?" : the predicate of delete_booking.
DeleteBookingWhere ==
    <<"r","o","o","m","n","a","m","e","=","?",","," ",
      "d","a","t","e","=","?",","," ","t","i","m","e","=","?">>

\* The column the UPDATE of modify_room selects the row by.
ModifyRoomWhereColumn == <<"r","o","o","m","_","i","d">>

\* Columns of the tables, as the code reads them (sqlite compares column
\* names without regard to case, so they are kept in lower case).
RoomsColumns ==
    { <<"r","o","o","m","i","d">>, <<"r","o","o","m","n","a","m","e">>,
      <<"p","i","c","t","u","r","e">>, <<"r","e","s","o","u","r","c","e","s">> }

BookingsColumns ==
    { [name |-> <<"r","o","o","m","n","a","m","e">>, field |-> "roomName", ty |-> "text"],
      [name |-> <<"d","a","t","e">>, field |-> "date", ty |-> "int"],
      [name |-> <<"t","i","m","e">>, field |-> "time", ty |-> "int"],
      [name |-> <<"f","i","r","s","t","n","a","m","e">>, field |-> "firstName", ty |-> "text"],
      [name |-> <<"l","a","s","t","n","a","m","e">>, field |-> "lastName", ty |-> "text"],
      [name |-> <<"e","m","a","i","l">>, field |-> "email", ty |-> "text"],
      [name |-> <<"c","o","n","t","a","c","t","n","u","m","b","e","r">>,
       field |-> "contactNumber", ty |-> "text"] }

----------------------------------------------------------------------------
(* sqlite: the tokens of a WHERE clause *)

Tok(t, v) == [t |-> t, v |-> v]

\* The index of the quote closing a string literal whose body starts at i
\* (a doubled quote stands for one quote inside the literal); 0 when the
\* literal is not closed.
RECURSIVE StrLitEnd(_, _)
StrLitEnd(text, i) ==
    IF i > Len(text) THEN 0
    ELSE IF text[i] # "'" THEN StrLitEnd(text, i + 1)
    ELSE IF i + 1 <= Len(text) /\ text[i + 1] = "'" THEN StrLitEnd(text, i + 2)
    ELSE i

RECURSIVE Unescape(_)
Unescape(t) ==
    IF Len(t) = 0 THEN <<>>
    ELSE IF Len(t) >= 2 /\ t[1] = "'" /\ t[2] = "'"
         THEN <<"'">> \o Unescape(SubSeq(t, 3, Len(t)))
         ELSE <<t[1]>> \o Unescape(SubSeq(t, 2, Len(t)))

\* The last index of the run of identifier characters that starts at i.
RECURSIVE IdEnd(_, _)
IdEnd(text, i) ==
    IF i + 1 <= Len(text) /\ IsIdChar(text[i + 1]) THEN IdEnd(text, i + 1) ELSE i

\* The tokens from i on, given where the token starting at i ends.
RECURSIVE Lex(_, _)
LexStr(text, i, e) ==
    IF e = 0 THEN <<Tok("bad", <<>>)>>
    ELSE <<Tok("str", Unescape(SubSeq(text, i + 1, e - 1)))>> \o Lex(text, e + 1)

LexWord(text, i, e) ==
    <<Tok(IF IsDigit(text[i]) THEN "num" ELSE "id", LowerText(SubSeq(text, i, e)))>>
        \o Lex(text, e + 1)

Lex(text, i) ==
    IF i > Len(text) THEN <<>>
    ELSE IF text[i] = " " THEN Lex(text, i + 1)
    ELSE IF text[i] = "=" THEN <<Tok("eq", <<>>)>> \o Lex(text, i + 1)
    ELSE IF text[i] = "," THEN <<Tok("comma", <<>>)>> \o Lex(text, i + 1)
    ELSE IF text[i] = "?" THEN <<Tok("param", <<>>)>> \o Lex(text, i + 1)
    ELSE IF text[i] = "'" THEN LexStr(text, i, StrLitEnd(text, i + 1))
    ELSE IF IsIdChar(text[i]) THEN LexWord(text, i, IdEnd(text, i))
    ELSE <<Tok("bad", <<>>)>>

----------------------------------------------------------------------------
(* sqlite: values, parsing and evaluating a WHERE clause *)

TextVal(s) == [ty |-> "text", s |-> s, n |-> 0]
IntVal(n) == [ty |-> "int", s |-> <<>>, n |-> n]

\* The length of the run of digits a text starts with.
RECURSIVE DigitPrefix(_, _)
DigitPrefix(t, i) ==
    IF i <= Len(t) /\ IsDigit(t[i]) THEN DigitPrefix(t, i + 1) ELSE i - 1

\* A value used as a condition: a text counts as the number it starts with.
Truth(v) ==
    IF v.ty = "int" THEN v.n # 0
    ELSE LET k == DigitPrefix(v.s, 1)
         IN  k > 0 /\ ParseNat(SubSeq(v.s, 1, k)) # 0

SqlEq(a, b) ==
    IF a.ty = "text" /\ b.ty = "text" THEN a.s = b.s
    ELSE IF a.ty = "int" /\ b.ty = "int" THEN a.n = b.n
    ELSE IF a.ty = "int" THEN ParseNat(b.s) = a.n
    ELSE ParseNat(a.s) = b.n

KwAnd == <<"a","n","d">>
KwOr == <<"o","r">>

Failed(pos) == [ok |-> FALSE, ast |-> [k |-> "none"], pos |-> pos]
Parsed(ast, pos) == [ok |-> TRUE, ast |-> ast, pos |-> pos]

IsKw(toks, pos, kw) ==
    pos <= Len(toks) /\ toks[pos].t = "id" /\ toks[pos].v = kw

NParams(toks, pos) == Cardinality({k \in 1..pos : toks[k].t = "param"})

ParseOperand(toks, cols, pos) ==
    IF pos > Len(toks) THEN Failed(pos)
    ELSE LET tk == toks[pos] IN
         IF tk.t = "str" THEN Parsed([k |-> "lit", v |-> TextVal(tk.v)], pos + 1)
         ELSE IF tk.t = "num" THEN
              IF ParseNat(tk.v) < 0 THEN Failed(pos)
              ELSE Parsed([k |-> "lit", v |-> IntVal(ParseNat(tk.v))], pos + 1)
         ELSE IF tk.t = "param" THEN
              Parsed([k |-> "param", i |-> NParams(toks, pos)], pos + 1)
         ELSE IF tk.t = "id" /\ tk.v # KwAnd /\ tk.v # KwOr
                 /\ \E c \in cols : c.name = tk.v THEN
              Parsed([k |-> "col", c |-> CHOOSE c \in cols : c.name = tk.v], pos + 1)
         ELSE Failed(pos)

\* A comparison or a connective built from two parsed operands.
MkBin(k, l, r) ==
    IF ~r.ok THEN r ELSE Parsed([k |-> k, l |-> l.ast, r |-> r.ast], r.pos)

ParseCmpRest(toks, cols, l) ==
    IF ~l.ok THEN l
    ELSE IF l.pos <= Len(toks) /\ toks[l.pos].t = "eq"
    THEN MkBin("eq", l, ParseOperand(toks, cols, l.pos + 1))
    ELSE l

ParseCmp(toks, cols, pos) == ParseCmpRest(toks, cols, ParseOperand(toks, cols, pos))

RECURSIVE ParseAndRest(_, _, _)
ParseAndRest(toks, cols, left) ==
    IF ~left.ok \/ ~IsKw(toks, left.pos, KwAnd) THEN left
    ELSE ParseAndRest(toks, cols,
             MkBin("and", left, ParseCmp(toks, cols, left.pos + 1)))

ParseAnd(toks, cols, pos) == ParseAndRest(toks, cols, ParseCmp(toks, cols, pos))

RECURSIVE ParseOrRest(_, _, _)
ParseOrRest(toks, cols, left) ==
    IF ~left.ok \/ ~IsKw(toks, left.pos, KwOr) THEN left
    ELSE ParseOrRest(toks, cols,
             MkBin("or", left, ParseAnd(toks, cols, left.pos + 1)))

\* The whole text must be one expression.
Complete(toks, r) ==
    IF r.ok /\ r.pos = Len(toks) + 1 THEN r ELSE Failed(r.pos)

ParseTokens(toks, cols) ==
    Complete(toks, ParseOrRest(toks, cols, ParseAnd(toks, cols, 1)))

\* A prepared WHERE clause: ok is FALSE when sqlite rejects the text.
ParseWhere(text, cols) == ParseTokens(Lex(text, 1), cols)

ColumnValue(row, c) ==
    IF c.ty = "int" THEN IntVal(row[c.field]) ELSE TextVal(row[c.field])

RECURSIVE Eval(_, _, _)
Eval(ast, row, params) ==
    IF ast.k = "lit" THEN ast.v
    ELSE IF ast.k = "col" THEN ColumnValue(row, ast.c)
    ELSE IF ast.k = "param" THEN params[ast.i]
    ELSE IF ast.k = "eq" THEN
         IntVal(IF SqlEq(Eval(ast.l, row, params), Eval(ast.r, row, params))
                THEN 1 ELSE 0)
    ELSE IF ast.k = "and" THEN
         IntVal(IF Truth(Eval(ast.l, row, params)) /\ Truth(Eval(ast.r, row, params))
                THEN 1 ELSE 0)
    ELSE IntVal(IF Truth(Eval(ast.l, row, params)) \/ Truth(Eval(ast.r, row, params))
                THEN 1 ELSE 0)

\* Whether a prepared WHERE clause selects a row.
Selects(ast, row, params) == Truth(Eval(ast, row, params))

\* The rows of a table a prepared WHERE clause selects, in table order.
RECURSIVE SelectFrom(_, _, _, _)
SelectFrom(table, ast, params, i) ==
    IF i > Len(table) THEN <<>>
    ELSE (IF Selects(ast, table[i], params) THEN <<table[i]>> ELSE <<>>)
         \o SelectFrom(table, ast, params, i + 1)

\* The rows of a table a prepared WHERE clause does not select.
RECURSIVE RejectFrom(_, _, _, _)
RejectFrom(table, ast, params, i) ==
    IF i > Len(table) THEN <<>>
    ELSE (IF Selects(ast, table[i], params) THEN <<>> ELSE <<table[i]>>)
         \o RejectFrom(table, ast, params, i + 1)

----------------------------------------------------------------------------
(* Inputs and seed data *)

Stage == <<"S","t","a","g","e">>
Chill == <<"C","h","i","l","l">>
Vodka == <<"V","o","d","k","a">>
\* x' OR '1'='1
Injection == <<"x","'"," ","O","R"," ","'","1","'","=","'","1">>

RoomNames == {Stage, Vodka}
FilterNames == {Chill, Vodka, Injection}

Usernames == {"para", "newuser"}

EmptyDict == <<>>

\* A user_dict that gives some of the optional fields and leaves the others
\* to their defaults.
UserDicts ==
    { [isadmin |-> 1, password |-> "test_pass", firstname |-> "firstname0",
       email |-> "john@example.com"] }

RoomDicts == { [picture |-> "new.png", resources |-> "tv"] }

SeedUser ==
    [userID |-> 1, isAdmin |-> 0, username |-> "para", password |-> "pw",
     firstName |-> "Paramartha", lastName |-> "Narendradhipa",
     email |-> "paramartha.n@ee.oulu.fi", contactNumber |-> "0417511944"]

RoomStage == [roomID |-> 1, roomName |-> Stage, picture |-> "stage.png",
              resources |-> "projector"]
RoomChill == [roomID |-> 2, roomName |-> Chill, picture |-> "chill.png",
              resources |-> "sofa"]

Booking1 ==
    [roomName |-> Stage, date |-> 20170301, time |-> 1000, firstName |-> "Onur",
     lastName |-> "Ozuduru", email |-> "onur.ozuduru@ee.oulu.fi",
     contactNumber |-> "0411311911"]
Booking2 ==
    [roomName |-> Chill, date |-> 2017035, time |-> 1200, firstName |-> "Paramartha",
     lastName |-> "Narendradhipa", email |-> "paramartha.n@ee.oulu.fi",
     contactNumber |-> "0417511944"]
Booking3 ==
    [roomName |-> Stage, date |-> 20170302, time |-> 900, firstName |-> "Onur",
     lastName |-> "Ozuduru", email |-> "onur.ozuduru@ee.oulu.fi",
     contactNumber |-> "0411311911"]

\* The store as loaded before the program runs: empty, or seeded.
StoreSeeds ==
    { [users |-> <<>>, rooms |-> <<>>, bookings |-> <<>>],
      [users |-> <<SeedUser>>, rooms |-> <<RoomStage, RoomChill>>,
       bookings |-> <<Booking1, Booking2, Booking3>>] }

BookingKeys ==
    { [roomname |-> Stage, date |-> 20170301, time |-> 1000],
      [roomname |-> Vodka, date |-> 20170301, time |-> 1000] }

----------------------------------------------------------------------------
(* Results of a call *)

Returned(kind, val) == [outcome |-> "returned", kind |-> kind, val |-> val]
Raised(exc) == [outcome |-> "raised", kind |-> "exc", val |-> exc]
RetNone == Returned("None", NoneVal)

Call(op, s, fault, args, res) ==
    [op |-> op, s |-> s, wasOpen |-> (con[s] = "open"), fault |-> fault,
     args |-> args, res |-> res]

DictGet(d, k, default) == IF k \in DOMAIN d THEN d[k] ELSE default

----------------------------------------------------------------------------
(* Connection: the session and the foreign-key pragma *)

\* What sqlite3 answers when a statement is run on a connection: cursor()
\* refuses a closed connection (ProgrammingError), and a store that fails
\* makes execute() raise (OperationalError).  Both are sqlite3.Error.
StmtError(c, fault) ==
    IF c # "open" THEN "ProgrammingError"
    ELSE IF fault THEN "OperationalError"
    ELSE "ok"

\* "if self.con:" -- the attribute always holds the sqlite3 connection
\* object made by __init__, open or closed.
ConTruthy(c) == c \in {"open", "closed"}

\* Close that commits and never releases the connection.
CloseCommitOnly(c) ==
    IF ConTruthy(c)
    THEN IF c = "open" THEN [con |-> c, res |-> RetNone]
         ELSE [con |-> c, res |-> Raised("ProgrammingError")]
    ELSE [con |-> c, res |-> RetNone]

\* Connection.close: commit, then close.  No write is ever pending between
\* calls, so commit changes nothing on an open connection; on a closed one
\* it raises.
Close(c) ==
    IF ConTruthy(c)
    THEN IF c = "open" THEN [con |-> "closed", res |-> RetNone]
         ELSE [con |-> c, res |-> Raised("ProgrammingError")]
    ELSE [con |-> c, res |-> RetNone]

\* The enabling toggle reporting success without running its statement.
SetForeignKeysSupportNoExec(c, f, fault) ==
    [fk |-> f, ret |-> StmtError(c, fault) = "ok"]

SetForeignKeysSupport(c, f, fault) ==
    IF StmtError(c, fault) = "ok" THEN [fk |-> TRUE, ret |-> TRUE]
    ELSE [fk |-> f, ret |-> FALSE]

\* The disabling toggle with the enabling statement under it.
UnsetForeignKeysSupportOn(c, f, fault) ==
    IF StmtError(c, fault) = "ok"
    THEN [fk |-> TRUE, ret |-> TRUE]
    ELSE [fk |-> f, ret |-> FALSE]

UnsetForeignKeysSupport(c, f, fault) ==
    IF StmtError(c, fault) = "ok" THEN [fk |-> FALSE, ret |-> TRUE]
    ELSE [fk |-> f, ret |-> FALSE]

\* The status check without the close() of its error path.
CheckForeignKeysStatusNoClose(c, f, fault) ==
    IF StmtError(c, fault) = "ok"
    THEN [con |-> c, res |-> Returned("bool", f)]
    ELSE [con |-> c, res |-> Raised(StmtError(c, fault))]

\* check_foreign_keys_status: the pragma's value, or on sqlite3.Error
\* self.close() and then the error (the error of close() when that raises).
CheckForeignKeysStatus(c, f, fault) ==
    LET err == StmtError(c, fault) IN
    IF err = "ok" THEN [con |-> c, res |-> Returned("bool", f)]
    ELSE LET cl == Close(c) IN
         IF cl.res.outcome = "raised" THEN cl
         ELSE [con |-> cl.con, res |-> Raised(err)]

----------------------------------------------------------------------------
(* Connection: row to object *)

CreateRoomObject(row) ==
    [roomid |-> IntToStr(row.roomID), roomname |-> row.roomName,
     picture |-> row.picture, resources |-> row.resources]

\* The mapping with the time taken from the date column.
CreateBookingObjectDateTwice(row) ==
    [roomname |-> row.roomName, date |-> IntToStr(row.date),
     time |-> IntToStr(row.date), firstname |-> row.firstName,
     lastname |-> row.lastName, email |-> row.email,
     contactnumber |-> row.contactNumber]

CreateBookingObject(row) ==
    [roomname |-> row.roomName, date |-> IntToStr(row.date),
     time |-> IntToStr(row.time), firstname |-> row.firstName,
     lastname |-> row.lastName, email |-> row.email,
     contactnumber |-> row.contactNumber]

\* The list built by appending the object of each fetched row.
RoomObjects(rows) == [i \in 1..Len(rows) |-> CreateRoomObject(rows[i])]

BookingObjects(rows) == [i \in 1..Len(rows) |-> CreateBookingObject(rows[i])]

----------------------------------------------------------------------------
(* Connection: the statements on Users and Rooms (bound parameters) *)

\* The lookup made on the firstName column instead of username.
UserLookupByFirstName(tbl, username) ==
    IF \E i \in 1..Len(tbl) : tbl[i].firstName = username
    THEN CHOOSE i \in 1..Len(tbl) :
             /\ tbl[i].firstName = username
             /\ \A j \in 1..(i - 1) : tbl[j].firstName # username
    ELSE 0

\* SELECT userID from Users WHERE username = ? ; fetchone(): the index of
\* the first matching row, 0 for None.
UserLookup(tbl, username) ==
    IF \E i \in 1..Len(tbl) : tbl[i].username = username
    THEN CHOOSE i \in 1..Len(tbl) :
             /\ tbl[i].username = username
             /\ \A j \in 1..(i - 1) : tbl[j].username # username
    ELSE 0

\* The rowid the store gives a new Users row.
NextUserID(tbl) ==
    IF Len(tbl) = 0 THEN 1
    ELSE 1 + (CHOOSE m \in {tbl[i].userID : i \in 1..Len(tbl)} :
                  \A i \in 1..Len(tbl) : tbl[i].userID <= m)

\* The INSERT with username and password bound in each other's place.
InsertUserSwapped(tbl, username, d) ==
    Append(tbl,
        [userID |-> NextUserID(tbl),
         isAdmin |-> DictGet(d, "isadmin", 0),
         username |-> DictGet(d, "password", NoneVal),
         password |-> username,
         firstName |-> DictGet(d, "firstname", NoneVal),
         lastName |-> DictGet(d, "lastname", NoneVal),
         email |-> DictGet(d, "email", NoneVal),
         contactNumber |-> DictGet(d, "contactnumber", NoneVal)])

\* INSERT INTO Users(isAdmin, username, password, firstName, lastName,
\* email, contactNumber) VALUES(?,?,?,?,?,?,?)
InsertUser(tbl, username, d) ==
    Append(tbl,
        [userID |-> NextUserID(tbl),
         isAdmin |-> DictGet(d, "isadmin", 0),
         username |-> username,
         password |-> DictGet(d, "password", NoneVal),
         firstName |-> DictGet(d, "firstname", NoneVal),
         lastName |-> DictGet(d, "lastname", NoneVal),
         email |-> DictGet(d, "email", NoneVal),
         contactNumber |-> DictGet(d, "contactnumber", NoneVal)])

\* The DELETE that reports as its rowcount the rows left instead of the
\* rows removed.
DeleteUsersCountLeft(tbl, username) ==
    LET keep(r) == r.username # username
        left == SelectSeq(tbl, keep)
    IN  [users |-> left, rowcount |-> Len(left)]

\* DELETE FROM Users WHERE username = ? : the table left, and cur.rowcount.
DeleteUsers(tbl, username) ==
    LET keep(r) == r.username # username
        left == SelectSeq(tbl, keep)
    IN  [users |-> left, rowcount |-> Len(tbl) - Len(left)]

\* SELECT roomID from Rooms WHERE roomName = ? ; fetchone().
RoomLookup(tbl, roomName) ==
    IF \E i \in 1..Len(tbl) : tbl[i].roomName = roomName
    THEN CHOOSE i \in 1..Len(tbl) :
             /\ tbl[i].roomName = roomName
             /\ \A j \in 1..(i - 1) : tbl[j].roomName # roomName
    ELSE 0

\* UPDATE Rooms SET picture = ?,resources = ? WHERE <column> = ? : sqlite
\* refuses a statement that names a column the table does not have.
UpdateRoom(tbl, column, room_id, picture, resources) ==
    IF column \notin RoomsColumns
    THEN [ok |-> FALSE, rooms |-> tbl, rowcount |-> 0]
    ELSE LET hit == {i \in 1..Len(tbl) : tbl[i].roomID = room_id} IN
         [ok |-> TRUE,
          rooms |-> [i \in 1..Len(tbl) |->
                        IF i \in hit
                        THEN [tbl[i] EXCEPT !.picture = picture,
                                            !.resources = resources]
                        ELSE tbl[i]],
          rowcount |-> Cardinality(hit)]

----------------------------------------------------------------------------
(* Connection: the database API, each call as what it leaves and returns *)

NoArgs == [none |-> TRUE]

Filters ==
    {[given |-> FALSE, name |-> <<>>]}
        \cup {[given |-> TRUE, name |-> n] : n \in FilterNames}

\* add_user after the pragma: lookup, then insert and commit.
AddUser(c, tbl, username, user_dict, fault) ==
    IF StmtError(c, fault) # "ok"
    THEN [users |-> tbl, res |-> Raised(StmtError(c, fault))]
    ELSE IF UserLookup(tbl, username) = 0
    THEN [users |-> InsertUser(tbl, username, user_dict),
          res |-> Returned("str", username)]
    ELSE [users |-> tbl, res |-> RetNone]

\* delete_user after the pragma: delete, commit, and judge by rowcount.
DeleteUser(c, tbl, username, fault) ==
    IF StmtError(c, fault) # "ok"
    THEN [users |-> tbl, res |-> Raised(StmtError(c, fault))]
    ELSE [users |-> DeleteUsers(tbl, username).users,
          res |-> Returned("bool", ~(DeleteUsers(tbl, username).rowcount < 1))]

\* get_rooms with the store's failure swallowed into None.
GetRoomsSwallow(c, tbl, fault) ==
    IF StmtError(c, fault) # "ok" THEN RetNone
    ELSE Returned("list", RoomObjects(tbl))

\* get_rooms answering None for an empty Rooms table.
GetRoomsNoneWhenEmpty(c, tbl, fault) ==
    IF StmtError(c, fault) # "ok" THEN Raised(StmtError(c, fault))
    ELSE IF tbl = <<>> THEN RetNone
    ELSE Returned("list", RoomObjects(tbl))

GetRooms(c, tbl, fault) ==
    IF StmtError(c, fault) # "ok" THEN Raised(StmtError(c, fault))
    ELSE Returned("list", RoomObjects(tbl))

\* The second half of modify_room, given what the UPDATE did.
ModifyRoomUpdated(tbl, roomName, upd) ==
    IF ~upd.ok THEN [rooms |-> tbl, res |-> Raised("OperationalError")]
    ELSE [rooms |-> upd.rooms,
          res |-> IF upd.rowcount < 1 THEN RetNone ELSE Returned("text", roomName)]

ModifyRoom(c, tbl, roomName, room_dict, fault) ==
    IF StmtError(c, fault) # "ok"
    THEN [rooms |-> tbl, res |-> Raised(StmtError(c, fault))]
    ELSE IF RoomLookup(tbl, roomName) = 0
    THEN [rooms |-> tbl, res |-> RetNone]
    ELSE ModifyRoomUpdated(tbl, roomName,
             UpdateRoom(tbl, ModifyRoomWhereColumn,
                        tbl[RoomLookup(tbl, roomName)].roomID,
                        DictGet(room_dict, "picture", NoneVal),
                        DictGet(room_dict, "resources", NoneVal)))

\* The statement get_bookings runs: SELECT * FROM Bookings, with the
\* WHERE clause when a room name is given.
BookingsQuery(filter) ==
    IF filter.given
    THEN ParseWhere(BookingsFilter(filter.name), BookingsColumns)
    ELSE Parsed([k |-> "lit", v |-> IntVal(1)], 1)

GetBookingsRun(tbl, stmt) ==
    IF ~stmt.ok THEN Raised("OperationalError")
    ELSE Returned("list",
                  BookingObjects(SelectFrom(tbl, stmt.ast, <<>>, 1)))

GetBookings(c, tbl, filter, fault) ==
    IF StmtError(c, fault) # "ok" THEN Raised(StmtError(c, fault))
    ELSE GetBookingsRun(tbl, BookingsQuery(filter))

\* What the DELETE of delete_booking leaves, and its rowcount.
DeleteBookingsLeft(tbl, left) ==
    [bookings |-> left, res |-> Returned("bool", ~(Len(tbl) - Len(left) < 1))]

DeleteBookingRun(tbl, stmt, params) ==
    IF ~stmt.ok THEN [bookings |-> tbl, res |-> Raised("OperationalError")]
    ELSE DeleteBookingsLeft(tbl, RejectFrom(tbl, stmt.ast, params, 1))

DeleteBooking(c, tbl, key, fault) ==
    IF StmtError(c, fault) # "ok"
    THEN [bookings |-> tbl, res |-> Raised(StmtError(c, fault))]
    ELSE DeleteBookingRun(tbl, ParseWhere(DeleteBookingWhere, BookingsColumns),
             <<TextVal(key.roomname), IntVal(key.date), IntVal(key.time)>>)

----------------------------------------------------------------------------
(* The state machine *)

\* A session with no call under way.
Idle ==
    [phase |-> "idle", op |-> "none", args |-> NoArgs, found |-> 0,
     lost |-> FALSE, res |-> RetNone]

\* A request that has not started: flask.g is empty.
NewRequest ==
    [pc |-> "new", g |-> "none", exc |-> FALSE, closes |-> 0, hook |-> RetNone]

Init ==
    /\ con = [s \in Sessions |-> "none"]
    /\ fk = [s \in Sessions |-> FALSE]
    /\ \E seed \in StoreSeeds :
           users = seed.users /\ rooms = seed.rooms /\ bookings = seed.bookings
    /\ lastOp = [op |-> "init", s |-> "none", wasOpen |-> FALSE, fault |-> FALSE,
                 args |-> NoArgs, res |-> RetNone]
    /\ pend = [s \in Sessions |-> Idle]
    /\ req = [r \in Requests |-> NewRequest]

\* Engine.connect(): a new Connection; foreign keys are off on a new
\* sqlite connection.
connect(s) ==
    /\ con[s] = "none"
    /\ \A i \in 1..Len(SessionOrder) :
           SessionOrder[i] = s => \A j \in 1..(i - 1) : con[SessionOrder[j]] # "none"
    /\ con' = [con EXCEPT ![s] = "open"]
    /\ fk' = [fk EXCEPT ![s] = FALSE]
    /\ lastOp' = Call("connect", s, FALSE, NoArgs, Returned("Connection", s))
    /\ UNCHANGED <<pend, req, users, rooms, bookings>>

close(s) ==
    /\ con[s] # "none"
    /\ con' = [con EXCEPT ![s] = Close(con[s]).con]
    /\ lastOp' = Call("close", s, FALSE, NoArgs, Close(con[s]).res)
    /\ UNCHANGED <<pend, req, fk, users, rooms, bookings>>

check_foreign_keys_status(s, fault) ==
    /\ con[s] # "none"
    /\ con' = [con EXCEPT ![s] = CheckForeignKeysStatus(con[s], fk[s], fault).con]
    /\ lastOp' = Call("check_foreign_keys_status", s, fault, NoArgs,
                      CheckForeignKeysStatus(con[s], fk[s], fault).res)
    /\ UNCHANGED <<pend, req, fk, users, rooms, bookings>>

set_foreign_keys_support(s, fault) ==
    /\ con[s] # "none"
    /\ fk' = [fk EXCEPT ![s] = SetForeignKeysSupport(con[s], fk[s], fault).fk]
    /\ lastOp' = Call("set_foreign_keys_support", s, fault, NoArgs,
                      Returned("bool", SetForeignKeysSupport(con[s], fk[s], fault).ret))
    /\ UNCHANGED <<pend, req, con, users, rooms, bookings>>

unset_foreign_keys_support(s, fault) ==
    /\ con[s] # "none"
    /\ fk' = [fk EXCEPT ![s] = UnsetForeignKeysSupport(con[s], fk[s], fault).fk]
    /\ lastOp' = Call("unset_foreign_keys_support", s, fault, NoArgs,
                      Returned("bool", UnsetForeignKeysSupport(con[s], fk[s], fault).ret))
    /\ UNCHANGED <<pend, req, con, users, rooms, bookings>>

add_user(s, username, user_dict, fault) ==
    /\ con[s] # "none"
    /\ (StmtError(con[s], fault) = "ok" /\ UserLookup(users, username) = 0)
           => NextUserID(users) <= MaxUserID
    /\ fk' = [fk EXCEPT ![s] = SetForeignKeysSupport(con[s], fk[s], fault).fk]
    /\ users' = AddUser(con[s], users, username, user_dict, fault).users
    /\ lastOp' = Call("add_user", s, fault,
                      [username |-> username, user_dict |-> user_dict],
                      AddUser(con[s], users, username, user_dict, fault).res)
    /\ UNCHANGED <<pend, req, con, rooms, bookings>>

delete_user(s, username, fault) ==
    /\ con[s] # "none"
    /\ fk' = [fk EXCEPT ![s] = SetForeignKeysSupport(con[s], fk[s], fault).fk]
    /\ users' = DeleteUser(con[s], users, username, fault).users
    /\ lastOp' = Call("delete_user", s, fault, [username |-> username],
                      DeleteUser(con[s], users, username, fault).res)
    /\ UNCHANGED <<pend, req, con, rooms, bookings>>

get_rooms(s, fault) ==
    /\ con[s] # "none"
    /\ lastOp' = Call("get_rooms", s, fault, NoArgs, GetRooms(con[s], rooms, fault))
    /\ UNCHANGED <<pend, req, con, fk, users, rooms, bookings>>

modify_room(s, roomName, room_dict, fault) ==
    /\ con[s] # "none"
    /\ rooms' = ModifyRoom(con[s], rooms, roomName, room_dict, fault).rooms
    /\ lastOp' = Call("modify_room", s, fault,
                      [roomName |-> roomName, room_dict |-> room_dict],
                      ModifyRoom(con[s], rooms, roomName, room_dict, fault).res)
    /\ UNCHANGED <<pend, req, con, fk, users, bookings>>

\* filter.given is FALSE for get_bookings() and TRUE for
\* get_bookings(roomname=filter.name).
get_bookings(s, filter, fault) ==
    /\ con[s] # "none"
    /\ fk' = [fk EXCEPT ![s] = SetForeignKeysSupport(con[s], fk[s], fault).fk]
    /\ lastOp' = Call("get_bookings", s, fault, filter,
                      GetBookings(con[s], bookings, filter, fault))
    /\ UNCHANGED <<pend, req, con, users, rooms, bookings>>

delete_booking(s, key, fault) ==
    /\ con[s] # "none"
    /\ bookings' = DeleteBooking(con[s], bookings, key, fault).bookings
    /\ lastOp' = Call("delete_booking", s, fault, key,
                      DeleteBooking(con[s], bookings, key, fault).res)
    /\ UNCHANGED <<pend, req, con, fk, users, rooms>>

\* A store failure shows only on an open connection: a closed one refuses
\* the call before the store is touched.
Faults(s) == IF con[s] = "open" THEN BOOLEAN ELSE {FALSE}

Next ==
    \/ \E s \in Sessions : connect(s)
    \/ \E s \in Sessions : close(s)
    \/ \E s \in Sessions : \E fault \in Faults(s) : check_foreign_keys_status(s, fault)
    \/ \E s \in Sessions : \E fault \in Faults(s) : set_foreign_keys_support(s, fault)
    \/ \E s \in Sessions : \E fault \in Faults(s) : unset_foreign_keys_support(s, fault)
    \/ \E s \in Sessions : \E u \in Usernames, d \in UserDicts, fault \in Faults(s) :
           add_user(s, u, d, fault)
    \/ \E s \in Sessions : \E u \in Usernames, fault \in Faults(s) :
           delete_user(s, u, fault)
    \/ \E s \in Sessions : \E fault \in Faults(s) : get_rooms(s, fault)
    \/ \E s \in Sessions : \E n \in RoomNames, d \in RoomDicts, fault \in Faults(s) :
           modify_room(s, n, d, fault)
    \/ \E s \in Sessions : \E f \in Filters, fault \in Faults(s) :
           get_bookings(s, f, fault)
    \/ \E s \in Sessions : \E k \in BookingKeys, fault \in Faults(s) :
           delete_booking(s, k, fault)

Spec == Init /\ [][Next]_vars

----------------------------------------------------------------------------
(* add_user and modify_room statement by statement.  Each statement is    *)
(* atomic in sqlite; the code opens no transaction around the lookup and  *)
(* the write, so statements of other connections fall between them.       *)

\* The Users table declares no uniqueness of username that the store would
\* enforce: a duplicate username is a soft conflict that add_user answers
\* with None after its lookup, and no error kind for a refused insert
\* exists.
UsersUsernameUnique == FALSE

\* query2 of add_user and the commit, on the table as it is then.
InsertUserStep(tbl, username, d) ==
    IF UsersUsernameUnique /\ UserLookup(tbl, username) # 0
    THEN [users |-> tbl, res |-> Raised("IntegrityError")]
    ELSE [users |-> InsertUser(tbl, username, d), res |-> Returned("str", username)]

\* query2 of modify_room and the commit, on the table as it is then, for
\* the roomID the lookup found.
UpdateRoomStep(tbl, p) ==
    ModifyRoomUpdated(tbl, p.args.roomName,
        UpdateRoom(tbl, ModifyRoomWhereColumn, p.found,
                   DictGet(p.args.room_dict, "picture", NoneVal),
                   DictGet(p.args.room_dict, "resources", NoneVal)))

Looked(op, args, found) ==
    [phase |-> "looked", op |-> op, args |-> args, found |-> found,
     lost |-> FALSE, res |-> RetNone]

Done(op, args, found, lost, res) ==
    [phase |-> "done", op |-> op, args |-> args, found |-> found,
     lost |-> lost, res |-> res]

\* add_user up to the fetchone() of its lookup: the pragma, query1, and the
\* return of None when a row came back.
add_user_lookup(s, username, user_dict) ==
    /\ con[s] = "open"
    /\ pend[s].phase # "looked"
    /\ fk' = [fk EXCEPT ![s] = SetForeignKeysSupport(con[s], fk[s], FALSE).fk]
    /\ IF UserLookup(users, username) = 0
       THEN /\ pend' = [pend EXCEPT ![s] =
                           Looked("add_user",
                                  [username |-> username, user_dict |-> user_dict], 0)]
            /\ UNCHANGED lastOp
       ELSE /\ pend' = [pend EXCEPT ![s] =
                           Done("add_user",
                                [username |-> username, user_dict |-> user_dict],
                                UserLookup(users, username), FALSE, RetNone)]
            /\ lastOp' = Call("add_user", s, FALSE,
                              [username |-> username, user_dict |-> user_dict],
                              RetNone)
    /\ UNCHANGED <<con, users, rooms, bookings, req>>

\* add_user from the insert on.
add_user_insert(s) ==
    /\ con[s] = "open"
    /\ pend[s].phase = "looked"
    /\ pend[s].op = "add_user"
    /\ NextUserID(users) <= MaxUserID
    /\ users' = InsertUserStep(users, pend[s].args.username,
                               pend[s].args.user_dict).users
    /\ pend' = [pend EXCEPT ![s] =
                    Done("add_user", pend[s].args, 0, FALSE,
                         InsertUserStep(users, pend[s].args.username,
                                        pend[s].args.user_dict).res)]
    /\ lastOp' = Call("add_user", s, FALSE, pend[s].args,
                      InsertUserStep(users, pend[s].args.username,
                                     pend[s].args.user_dict).res)
    /\ UNCHANGED <<con, fk, rooms, bookings, req>>

\* modify_room up to the fetchone() of its lookup, and the return of None
\* when no row came back.
modify_room_lookup(s, roomName, room_dict) ==
    /\ con[s] = "open"
    /\ pend[s].phase # "looked"
    /\ IF RoomLookup(rooms, roomName) # 0
       THEN /\ pend' = [pend EXCEPT ![s] =
                           Looked("modify_room",
                                  [roomName |-> roomName, room_dict |-> room_dict],
                                  rooms[RoomLookup(rooms, roomName)].roomID)]
            /\ UNCHANGED lastOp
       ELSE /\ pend' = [pend EXCEPT ![s] =
                           Done("modify_room",
                                [roomName |-> roomName, room_dict |-> room_dict],
                                0, FALSE, RetNone)]
            /\ lastOp' = Call("modify_room", s, FALSE,
                              [roomName |-> roomName, room_dict |-> room_dict],
                              RetNone)
    /\ UNCHANGED <<con, fk, users, rooms, bookings, req>>

\* modify_room from the update on; lost tells that the row the lookup
\* found is no longer in the table.
modify_room_update(s) ==
    /\ con[s] = "open"
    /\ pend[s].phase = "looked"
    /\ pend[s].op = "modify_room"
    /\ rooms' = UpdateRoomStep(rooms, pend[s]).rooms
    /\ pend' = [pend EXCEPT ![s] =
                    Done("modify_room", pend[s].args, pend[s].found,
                         ~\E i \in 1..Len(rooms) : rooms[i].roomID = pend[s].found,
                         UpdateRoomStep(rooms, pend[s]).res)]
    /\ lastOp' = Call("modify_room", s, FALSE, pend[s].args,
                      UpdateRoomStep(rooms, pend[s]).res)
    /\ UNCHANGED <<con, fk, users, bookings, req>>

\* Another writer on the same database file removes a Rooms row.
room_removed_elsewhere(i) ==
    /\ i \in 1..Len(rooms)
    /\ rooms' = [j \in 1..(Len(rooms) - 1) |->
                     IF j < i THEN rooms[j] ELSE rooms[j + 1]]
    /\ UNCHANGED <<con, fk, users, bookings, lastOp, pend, req>>

NextSteps ==
    \/ \E s \in Sessions : connect(s)
    \/ \E s \in Sessions : \E u \in Usernames, d \in UserDicts :
           add_user_lookup(s, u, d)
    \/ \E s \in Sessions : add_user_insert(s)
    \/ \E s \in Sessions : \E n \in RoomNames, d \in RoomDicts :
           modify_room_lookup(s, n, d)
    \/ \E s \in Sessions : modify_room_update(s)
    \/ \E i \in 1..Len(rooms) : room_removed_elsewhere(i)

SpecSteps == Init /\ [][NextSteps]_vars

----------------------------------------------------------------------------
(* resources.py: the request hooks.  Flask runs the before_request        *)
(* functions, then the view, and the teardown_request functions when the  *)
(* request context is popped, whether or not anything raised.             *)

\* The hook closing only when the request ended without an error.
CloseConnectionUnlessError(exc, hasCon, c) ==
    IF hasCon /\ ~exc
    THEN [con |-> Close(c).con, res |-> Close(c).res, called |-> TRUE]
    ELSE [con |-> c, res |-> RetNone, called |-> FALSE]

CloseConnection(exc, hasCon, c) ==
    IF hasCon
    THEN [con |-> Close(c).con, res |-> Close(c).res, called |-> TRUE]
    ELSE [con |-> c, res |-> RetNone, called |-> FALSE]

\* connect_db(): g.con = app.config["Engine"].connect()
connect_db(r, s) ==
    /\ req[r].pc = "new"
    /\ con[s] = "none"
    /\ \A i \in 1..Len(SessionOrder) :
           SessionOrder[i] = s => \A j \in 1..(i - 1) : con[SessionOrder[j]] # "none"
    /\ con' = [con EXCEPT ![s] = "open"]
    /\ fk' = [fk EXCEPT ![s] = FALSE]
    /\ req' = [req EXCEPT ![r] = [@ EXCEPT !.pc = "view", !.g = s]]
    /\ lastOp' = Call("connect", s, FALSE, NoArgs, Returned("Connection", s))
    /\ UNCHANGED <<users, rooms, bookings, pend>>

\* connect_db() when sqlite3.connect raises: g gets no con and the request
\* goes to its teardown with the error.
connect_db_raises(r) ==
    /\ req[r].pc = "new"
    /\ req' = [req EXCEPT ![r] = [@ EXCEPT !.pc = "teardown", !.exc = TRUE]]
    /\ UNCHANGED <<con, fk, users, rooms, bookings, lastOp, pend>>

\* The view function of the matched resource returns or raises.
dispatch_request(r, raises) ==
    /\ req[r].pc = "view"
    /\ req' = [req EXCEPT ![r] = [@ EXCEPT !.pc = "teardown", !.exc = raises]]
    /\ UNCHANGED <<con, fk, users, rooms, bookings, lastOp, pend>>

\* The teardown of the request: close_connection(exc).
close_connection(r) ==
    /\ req[r].pc = "teardown"
    /\ IF req[r].g = "none"
       THEN /\ req' = [req EXCEPT ![r] =
                          [@ EXCEPT !.pc = "ended",
                                    !.hook = CloseConnection(@.exc, FALSE, "none").res]]
            /\ UNCHANGED <<con, lastOp>>
       ELSE /\ con' = [con EXCEPT ![req[r].g] =
                          CloseConnection(req[r].exc, TRUE, con[req[r].g]).con]
            /\ req' = [req EXCEPT ![r] =
                          [@ EXCEPT
                              !.pc = "ended",
                              !.closes =
                                  IF CloseConnection(req[r].exc, TRUE, con[req[r].g]).called
                                  THEN @ + 1 ELSE @,
                              !.hook = CloseConnection(req[r].exc, TRUE, con[req[r].g]).res]]
            /\ lastOp' =
                   IF CloseConnection(req[r].exc, TRUE, con[req[r].g]).called
                   THEN Call("close", req[r].g, FALSE, NoArgs,
                             CloseConnection(req[r].exc, TRUE, con[req[r].g]).res)
                   ELSE lastOp
    /\ UNCHANGED <<fk, users, rooms, bookings, pend>>

NextHttp ==
    \/ \E r \in Requests : \E s \in Sessions : connect_db(r, s)
    \/ \E r \in Requests : connect_db_raises(r)
    \/ \E r \in Requests : \E raises \in BOOLEAN : dispatch_request(r, raises)
    \/ \E r \in Requests : close_connection(r)

SpecHttp == Init /\ [][NextHttp]_vars

----------------------------------------------------------------------------
(* Properties *)

\* The call recorded in lastOp ran on an open session and the store did
\* not fail under it.
Healthy(call) == call.wasOpen /\ ~call.fault

\* The indices of the Users rows with a username.
RowsNamed(tbl, u) == {i \in 1..Len(tbl) : tbl[i].username = u}

\* The Users rows with a username, in table order.
UsersNamed(tbl, u) == LET named(r) == r.username = u IN SelectSeq(tbl, named)

\* The indices of the Bookings rows of a room.
BookingsOfRoom(tbl, R) == {i \in 1..Len(tbl) : tbl[i].roomName = R}

BookingRecordKeys ==
    {"roomname", "date", "time", "firstname", "lastname", "email", "contactnumber"}

DataOps ==
    {"add_user", "delete_user", "get_rooms", "modify_room", "get_bookings",
     "delete_booking"}
ToggleOps == {"set_foreign_keys_support", "unset_foreign_keys_support"}
OtherOps == DataOps \cup ToggleOps \cup {"check_foreign_keys_status"}

StoreUnchanged == users' = users /\ rooms' = rooms /\ bookings' = bookings

\* C1: add_user(u, fields) for a username with no Users row, on an open
\* session whose store does not fail, returns u and leaves exactly one row
\* with username u.
C1_AddUserNew ==
    [][\A u \in Usernames :
          (/\ lastOp'.op = "add_user"
           /\ lastOp'.args.username = u
           /\ Healthy(lastOp')
           /\ RowsNamed(users, u) = {})
          => (/\ lastOp'.res = Returned("str", u)
              /\ Cardinality(RowsNamed(users', u)) = 1)]_vars

C1_Witness ==
    /\ lastOp.op = "add_user"
    /\ Healthy(lastOp)
    /\ lastOp.res = Returned("str", lastOp.args.username)
    /\ Cardinality(RowsNamed(users, lastOp.args.username)) = 1

\* C2: add_user(u, fields) for a username that has a Users row returns None
\* without raising and leaves the rows with username u as they were.
C2_AddUserExisting ==
    [][\A u \in Usernames :
          (/\ lastOp'.op = "add_user"
           /\ lastOp'.args.username = u
           /\ Healthy(lastOp')
           /\ RowsNamed(users, u) # {})
          => (/\ lastOp'.res = RetNone
              /\ UsersNamed(users', u) = UsersNamed(users, u))]_vars

C2_Witness ==
    /\ lastOp.op = "add_user"
    /\ Healthy(lastOp)
    /\ lastOp.res = RetNone
    /\ RowsNamed(users, lastOp.args.username) # {}

\* C3: delete_user(u) returns True exactly when a row with username u
\* existed before the call, and no row with username u remains after it.
C3_DeleteUser ==
    [][\A u \in Usernames :
          (/\ lastOp'.op = "delete_user"
           /\ lastOp'.args.username = u
           /\ Healthy(lastOp'))
          => (/\ lastOp'.res = Returned("bool", RowsNamed(users, u) # {})
              /\ RowsNamed(users', u) = {})]_vars

C3_Witness ==
    /\ lastOp.op = "delete_user"
    /\ Healthy(lastOp)
    /\ lastOp.res = Returned("bool", TRUE)
    /\ RowsNamed(users, lastOp.args.username) = {}

\* C4: get_bookings(roomname=R) returns exactly the bookings whose roomName
\* is R, for every text R: as many records as the room has bookings, each
\* of room R, and never an error.
C4_FilterExact ==
    (/\ lastOp.op = "get_bookings"
     /\ lastOp.args.given
     /\ Healthy(lastOp))
    => (/\ lastOp.res.outcome = "returned"
        /\ lastOp.res.kind = "list"
        /\ Len(lastOp.res.val)
               = Cardinality(BookingsOfRoom(bookings, lastOp.args.name))
        /\ \A j \in 1..Len(lastOp.res.val) :
               lastOp.res.val[j].roomname = lastOp.args.name)

\* C5: get_bookings() returns one record per Bookings row, in table order,
\* each with exactly the seven keys and the row's values (date and time as
\* their decimal texts).
C5_AllBookings ==
    (/\ lastOp.op = "get_bookings"
     /\ ~lastOp.args.given
     /\ Healthy(lastOp))
    => (/\ lastOp.res.outcome = "returned"
        /\ lastOp.res.kind = "list"
        /\ Len(lastOp.res.val) = Len(bookings)
        /\ \A i \in 1..Len(bookings) :
               /\ DOMAIN lastOp.res.val[i] = BookingRecordKeys
               /\ lastOp.res.val[i].roomname = bookings[i].roomName
               /\ ParseNat(lastOp.res.val[i].date) = bookings[i].date
               /\ ParseNat(lastOp.res.val[i].time) = bookings[i].time
               /\ lastOp.res.val[i].firstname = bookings[i].firstName
               /\ lastOp.res.val[i].lastname = bookings[i].lastName
               /\ lastOp.res.val[i].email = bookings[i].email
               /\ lastOp.res.val[i].contactnumber = bookings[i].contactNumber)

C5_Witness ==
    /\ lastOp.op = "get_bookings"
    /\ ~lastOp.args.given
    /\ Healthy(lastOp)
    /\ lastOp.res.kind = "list"
    /\ Len(lastOp.res.val) = 3

\* C6: modify_room(name, {picture: P, resources: Res}) on an existing room
\* sets that room's picture and resources, leaves the other rooms alone and
\* returns the name; on a missing room it returns None and changes nothing.
C6_ModifyRoom ==
    [][(lastOp'.op = "modify_room" /\ Healthy(lastOp'))
       => IF \E i \in 1..Len(rooms) : rooms[i].roomName = lastOp'.args.roomName
          THEN /\ lastOp'.res = Returned("text", lastOp'.args.roomName)
               /\ Len(rooms') = Len(rooms)
               /\ \A i \in 1..Len(rooms) :
                      IF rooms[i].roomName = lastOp'.args.roomName
                      THEN rooms'[i] =
                               [rooms[i] EXCEPT
                                   !.picture = lastOp'.args.room_dict.picture,
                                   !.resources = lastOp'.args.room_dict.resources]
                      ELSE rooms'[i] = rooms[i]
          ELSE lastOp'.res = RetNone /\ StoreUnchanged]_vars

\* C7: delete_booking(roomname, date, time, fields) removes the booking with
\* that key and returns True exactly when one row was removed; with no such
\* booking it returns False and leaves Bookings as it was.
C7_DeleteBooking ==
    [][(lastOp'.op = "delete_booking" /\ Healthy(lastOp'))
       => LET hit == {i \in 1..Len(bookings) :
                         /\ bookings[i].roomName = lastOp'.args.roomname
                         /\ bookings[i].date = lastOp'.args.date
                         /\ bookings[i].time = lastOp'.args.time}
          IN  /\ lastOp'.res = Returned("bool", Cardinality(hit) = 1)
              /\ Len(bookings') = Len(bookings) - Cardinality(hit)
              /\ hit = {} => bookings' = bookings]_vars

\* C8: no two Users rows share a username.
C8_UsernamesUnique ==
    \A i, j \in 1..Len(users) : users[i].username = users[j].username => i = j

C8_Witness ==
    /\ Len(users) = 2
    /\ lastOp.op = "add_user"
    /\ Healthy(lastOp)
    /\ lastOp.res = RetNone

\* C9: close() on a session that is already closed completes without
\* raising and leaves the session closed and the store as it was.
C9_CloseIdempotent ==
    [][(lastOp'.op = "close" /\ con[lastOp'.s] = "closed")
       => (/\ lastOp'.res.outcome = "returned"
           /\ con'[lastOp'.s] = "closed"
           /\ StoreUnchanged)]_vars

\* C10 as stated: close() moves a session from open to closed, nothing
\* moves it back, and on a closed session every other operation ends in an
\* error (an exception) and leaves the store's rows unchanged.
C10_ClosedAllRaise ==
    [][/\ \A s \in Sessions : con[s] = "closed" => con'[s] = "closed"
       /\ (lastOp'.op = "close" /\ con[lastOp'.s] = "open")
              => con'[lastOp'.s] = "closed"
       /\ (lastOp'.op \in OtherOps /\ con[lastOp'.s] = "closed")
              => (lastOp'.res.outcome = "raised" /\ StoreUnchanged)]_vars

\* C10 as amended: the same, except that the two foreign-key toggles do not
\* raise on a closed session: they return False.
C10_ClosedFails ==
    [][/\ \A s \in Sessions : con[s] = "closed" => con'[s] = "closed"
       /\ (lastOp'.op = "close" /\ con[lastOp'.s] = "open")
              => con'[lastOp'.s] = "closed"
       /\ (lastOp'.op \in OtherOps /\ con[lastOp'.s] = "closed")
              => (/\ StoreUnchanged
                  /\ IF lastOp'.op \in ToggleOps
                     THEN lastOp'.res = Returned("bool", FALSE)
                     ELSE lastOp'.res.outcome = "raised")]_vars

C10_Witness ==
    /\ lastOp.op \in ToggleOps
    /\ con[lastOp.s] = "closed"
    /\ ~lastOp.wasOpen
    /\ lastOp.res = Returned("bool", FALSE)

C12_CheckFailureCloses ==
    [][(/\ lastOp'.op = "check_foreign_keys_status"
        /\ lastOp'.wasOpen
        /\ lastOp'.fault)
       => (/\ con'[lastOp'.s] = "closed"
           /\ lastOp'.res = Raised("OperationalError")
           /\ StoreUnchanged
           /\ fk' = fk)]_vars

C12_Witness ==
    /\ lastOp.op = "check_foreign_keys_status"
    /\ lastOp.wasOpen
    /\ lastOp.fault
    /\ lastOp.res = Raised("OperationalError")
    /\ con[lastOp.s] = "closed"

\* C13 as stated: when the store fails under add_user, delete_user,
\* get_rooms, modify_room, get_bookings or delete_booking, the failure is
\* raised and the session is closed by the time the caller sees it.
C13_FailureCloses ==
    [][(lastOp'.op \in DataOps /\ lastOp'.wasOpen /\ lastOp'.fault)
       => (/\ lastOp'.res = Raised("OperationalError")
           /\ con'[lastOp'.s] = "closed")]_vars

\* C13 as amended: the failure is raised, and the session is left open:
\* these six operations never close it.
C13_FailureRaisedOnly ==
    [][/\ (lastOp'.op \in DataOps /\ lastOp'.wasOpen /\ lastOp'.fault)
          => (/\ lastOp'.res = Raised("OperationalError")
              /\ con'[lastOp'.s] = "open")
       /\ lastOp'.op \in DataOps => con' = con]_vars

C13_Witness ==
    /\ lastOp.op \in DataOps
    /\ lastOp.wasOpen
    /\ lastOp.fault
    /\ lastOp.res = Raised("OperationalError")
    /\ con[lastOp.s] = "open"

C14_ModifyRoomRace ==
    [][\A s \in Sessions :
          (/\ pend[s].phase = "looked"
           /\ pend[s].op = "modify_room"
           /\ pend'[s].phase = "done")
          => (/\ (pend'[s].res = Returned("text", pend[s].args.roomName))
                     <=> (rooms' # rooms)
              /\ pend'[s].lost => (pend'[s].res = RetNone /\ rooms' = rooms))]_vars

====
